---- MODULE Spec2Model ----
(***************************************************************************)
(* Model of the logging facade github.com/vsjadeja/log: a wrapper around   *)
(* zap.  Logger objects live in a heap (With mutates its receiver, Named   *)
(* copies it), the level gate is a cell shared through zap.AtomicLevel,    *)
(* and every leveled method funnels through logw / logf.                   *)
(***************************************************************************)
EXTENDS Integers, Sequences, FiniteSets

VARIABLES heap,   \* Logger objects; a *Logger is an index into heap, 0 is nil
          cells,  \* the zap.AtomicLevel cells, by index
          last,   \* what the most recent operation was given and what it did
          input,  \* the arguments drawn for a single call
          slot,   \* defaultLogger, the singleton pointer
          pc,     \* position of each goroutine inside L()
          loc,    \* local variable l of each goroutine inside L()
          calls,  \* number of L() calls each goroutine has started
          withs,  \* number of With calls made so far
          dial    \* history: <<level>> for the level last passed to SetLevel
                  \* on any logger, <<>> before the first call

vars == <<heap, cells, last, input, slot, pc, loc, calls, withs, dial>>

-----------------------------------------------------------------------------
(* Bounds of the model *)

MaxLen == 3       \* longest argument list handed to a keyed call
MaxLoggers == 2   \* Logger objects in the heap
MaxWith == 2      \* With calls in one behaviour
NProcs == 2       \* goroutines racing on L()
MaxCalls == 2     \* L() calls of one goroutine

-----------------------------------------------------------------------------
(* Severities, zapcore.Level *)

DebugLevel == -1
InfoLevel == 0
WarnLevel == 1
ErrorLevel == 2
DPanicLevel == 3
PanicLevel == 4
FatalLevel == 5

Levels == DebugLevel..FatalLevel

Procs == 1..NProcs

NoTraceId == "unknown"
danglingKeyErrMsg == "Ignored key without a value."
nonStringKeyErrMsg == "Ignored key-value pairs with non-string keys."

-----------------------------------------------------------------------------
(* Values of type interface{}: every value is a record tagged by t *)

StrV(s) == [t |-> "string", s |-> s]
IntV(n) == [t |-> "int", n |-> n]
BoolV(b) == [t |-> "bool", b |-> b]
BytesV(s) == [t |-> "bytes", bytes |-> s]
ObjV(s) == [t |-> "object", obj |-> s]
ArrV(a) == [t |-> "array", arr |-> a]
NilV == [t |-> "nil"]
\* a context.Context; trace is the hex form of a valid trace id, "" without one
CtxV(trace) == [t |-> "ctx", trace |-> trace]

\* zapcore.Field
MkField(key, type, val) == [t |-> "Field", key |-> key, type |-> type, val |-> val]

IsField(e) == e.t = "Field"
IsCtx(e) == e.t = "ctx"
IsString(e) == e.t = "string"

\* zap.Any chooses the field type from the dynamic type of the value
AnyType(v) ==
    CASE v.t = "string" -> "String"
      [] v.t = "int" -> "Int64"
      [] v.t = "bool" -> "Bool"
      [] v.t = "bytes" -> "Binary"
      [] v.t = "object" -> "ObjectMarshaler"
      [] v.t = "array" -> "ArrayMarshaler"
      [] OTHER -> "Reflect"

Any(key, value) == MkField(key, AnyType(value), value)

-----------------------------------------------------------------------------
(* fields.go: the Field constructors *)

ErrV(msg) == [t |-> "error", msg |-> msg]

\* what a call that faults (a nil dereference) yields instead of a Field
Fault == [t |-> "panic"]

Object(key, val) == MkField(key, "ObjectMarshaler", val)
Binary(key, value) == MkField(key, "Binary", value)
Bool(key, value) == MkField(key, "Bool", IntV(IF value THEN 1 ELSE 0))
ByteString(key, val) == MkField(key, "ByteString", val)
Namespace(key) == MkField(key, "Namespace", NilV)
Method(value) == MkField("method", "String", StrV(value))
Action(value) == MkField("action", "String", StrV(value))
Topic(value) == MkField("topic", "String", StrV(value))
Partition(value) == MkField("partition", "Int64", IntV(value))
Offset(value) == MkField("offset", "Int64", IntV(value))
ProductID(value) == MkField("product_id", "Uint64", IntV(value))
\* err.Error() on a nil error dereferences nil
Error(err) ==
    IF err.t = "nil" THEN Fault ELSE MkField("error", "String", StrV(err.msg))
Count(count) == MkField("count", "Int64", IntV(count))
Query(query) == MkField("query", "String", StrV(query))
File(fileName) == MkField("file", "String", StrV(fileName))

TraceId(ctx) ==
    IF ctx.trace /= ""
    THEN MkField("traceId", "String", StrV(ctx.trace))
    ELSE MkField("traceId", "String", StrV(NoTraceId))

-----------------------------------------------------------------------------
(* The zap logger a Logger wraps (l.base) and its core *)

\* the io core built by zapcore.NewCore, enabled by the level cell it was given
IoCore(cell) == [kind |-> "io", enab |-> cell]
\* the core of zap.NewNop
NopCore == [kind |-> "nop", enab |-> 0]

ZapLogger(core, development, addStack) ==
    [core |-> core, development |-> development, addStack |-> addStack,
     name |-> "", fields |-> <<>>]

\* l.base.Core().Enabled(lvl)
CoreEnabled(core, lvl) == core.kind = "io" /\ lvl >= cells[core.enab]

\* l.base.With(fields...): a clone whose core carries the fields as context
ZapWith(base, fields) ==
    IF Len(fields) = 0 \/ base.core.kind = "nop" THEN base
    ELSE [base EXCEPT !.fields = @ \o fields]

\* l.base.Named(name): a clone with one more period-joined name segment
ZapNamed(base, name) ==
    IF name = "" THEN base
    ELSE [base EXCEPT !.name = IF @ = "" THEN name ELSE @ \o "." \o name]

\* l.base.Check(lvl, msg): the checked entry, nil when nothing is to be done.
\* Panic and Fatal (and DPanic in development) entries exist even when the
\* core rejects the level: writing them reaches no core but still panics/exits.
ZapCheck(base, lvl, msg) ==
    LET willWrite == CoreEnabled(base.core, lvl)
        should == IF lvl = PanicLevel THEN "panic"
                  ELSE IF lvl = FatalLevel THEN "exit"
                  ELSE IF lvl = DPanicLevel /\ base.development THEN "panic"
                  ELSE "return"
    IN  [nil |-> ~willWrite /\ should = "return",
         write |-> willWrite,
         should |-> should,
         ent |-> [level |-> lvl, msg |-> msg, name |-> base.name,
                  stack |-> lvl >= base.addStack]]

\* ce.Write(fields...): one record on the core, then the entry's after-action
CeWrite(base, ce, fields) ==
    [writes |-> IF ce.write
                THEN << [level |-> ce.ent.level, msg |-> ce.ent.msg,
                         name |-> ce.ent.name, stack |-> ce.ent.stack,
                         fields |-> base.fields \o fields] >>
                ELSE <<>>,
     outcome |-> ce.should]

\* l.base.DPanic(msg, fields...)
ZapDPanic(base, msg, fields) ==
    LET ce == ZapCheck(base, DPanicLevel, msg)
    IN  IF ce.nil THEN [writes |-> <<>>, outcome |-> "return"]
        ELSE CeWrite(base, ce, fields)

-----------------------------------------------------------------------------
(* fmt.Sprint / fmt.Sprintf as logf uses them.  A format is a sequence of  *)
(* tokens, each the verb "%s" or literal text; its string is their         *)
(* concatenation.  Operands are strings.                                   *)

RECURSIVE Join(_)
Join(toks) == IF toks = <<>> THEN "" ELSE Head(toks) \o Join(Tail(toks))

\* fmt.Sprint of string operands: no separator is added between strings
RECURSIVE fmtSprint(_)
fmtSprint(args) == IF args = <<>> THEN "" ELSE Head(args).s \o fmtSprint(Tail(args))

RECURSIVE fmtExtra(_)
fmtExtra(args) ==
    IF args = <<>> THEN ""
    ELSE "string=" \o Head(args).s
         \o (IF Tail(args) = <<>> THEN "" ELSE ", " \o fmtExtra(Tail(args)))

RECURSIVE fmtSprintf(_, _)
fmtSprintf(toks, args) ==
    IF toks = <<>>
    THEN IF args = <<>> THEN "" ELSE "%!(EXTRA " \o fmtExtra(args) \o ")"
    ELSE IF Head(toks) = "%s"
         THEN IF args = <<>>
              THEN "%!s(MISSING)" \o fmtSprintf(Tail(toks), args)
              ELSE Head(args).s \o fmtSprintf(Tail(toks), Tail(args))
         ELSE Head(toks) \o fmtSprintf(Tail(toks), args)

-----------------------------------------------------------------------------
(* invalidPair / invalidPairs and their marshalling *)

invalidPair(position, key, value) ==
    [position |-> position, key |-> key, value |-> value]

MarshalLogObject(p) ==
    << MkField("position", "Int64", IntV(p.position)),
       Any("key", p.key), Any("value", p.value) >>

MarshalLogArray(ps) == [j \in DOMAIN ps |-> MarshalLogObject(ps[j])]

\* zap.Array(key, invalids): marshalled when the record is encoded
ZapArray(key, ps) == MkField(key, "ArrayMarshaler", ArrV(MarshalLogArray(ps)))

-----------------------------------------------------------------------------
(* logw: the level gate, the scan of the argument list, the diagnostics    *)

\* what a call did: the records written to the core in order, how control
\* left the call ("return", "panic", "exit"), how many Fields the call
\* constructed, and whether the gate at the top of logw/logf rejected it
Result(writes, outcome, built, rejected) ==
    [writes |-> writes, outcome |-> outcome, built |-> built, rejected |-> rejected]

\* fields, invalids := make(...), invalidPairs(nil); i := 0
ScanInit ==
    [i |-> 0, fields |-> <<>>, invalids |-> <<>>, writes |-> <<>>,
     outcome |-> "return", built |-> 0, done |-> FALSE]

\* the loop body with the context branch advancing past the next element too
ScanStepSkipsAfterCtx(base, kv, s) ==
    LET e == kv[s.i + 1]
    IN  IF IsField(e)
        THEN [s EXCEPT !.fields = Append(@, e), !.i = @ + 1]
        ELSE IF IsCtx(e)
        THEN [s EXCEPT !.i = @ + 2, !.built = @ + 1]
        ELSE IF s.i = Len(kv) - 1
        THEN [s EXCEPT !.done = TRUE]
        ELSE [s EXCEPT !.fields = Append(@, Any("k", kv[s.i + 2])), !.i = @ + 2]

\* one iteration of the loop, entered with s.i < len(kv).  kv[i] of the
\* source is kv[s.i + 1] here.
ScanStep(base, kv, s) ==
    LET n == Len(kv)
        m == n - 1
        e == kv[s.i + 1]
    IN  IF IsField(e)
        THEN [s EXCEPT !.fields = Append(@, e), !.i = @ + 1]
        ELSE IF IsCtx(e)
        THEN IF TraceId(e).val.s /= NoTraceId
             THEN [s EXCEPT !.fields = Append(@, TraceId(e)),
                            !.i = @ + 1, !.built = @ + 2]
             ELSE [s EXCEPT !.i = @ + 1, !.built = @ + 1]
        ELSE IF s.i = m
        THEN LET d == ZapDPanic(base, danglingKeyErrMsg, <<Any("ignored", e)>>)
             IN  [s EXCEPT !.writes = @ \o d.writes, !.outcome = d.outcome,
                           !.built = @ + 1, !.done = TRUE]
        ELSE LET k == kv[s.i + 1]
                 v == kv[s.i + 2]
             IN  IF ~IsString(k)
                 THEN [s EXCEPT !.invalids = Append(@, invalidPair(s.i, k, v)),
                                !.i = @ + 2]
                 ELSE [s EXCEPT !.fields = Append(@, Any(k.s, v)),
                                !.i = @ + 2, !.built = @ + 1]

\* the loop of lines 250-282, run to its end (i >= n, or the break)
RECURSIVE Scan(_, _, _)
Scan(base, kv, s) ==
    IF s.done \/ s.i >= Len(kv) THEN s ELSE Scan(base, kv, ScanStep(base, kv, s))

\* lines 246-290: the entry is checked, the list scanned, the diagnostics
\* and the record written
logwAdmitted(base, lvl, msg, kv) ==
    LET ce == ZapCheck(base, lvl, msg)
    IN  IF ce.nil THEN Result(<<>>, "return", 0, FALSE)
        ELSE IF Len(kv) > 0
        THEN LET s == Scan(base, kv, ScanInit)
                 d == IF Len(s.invalids) > 0
                      THEN ZapDPanic(base, nonStringKeyErrMsg,
                                     <<ZapArray("invalid", s.invalids)>>)
                      ELSE [writes |-> <<>>, outcome |-> "return"]
                 nd == IF Len(s.invalids) > 0 THEN 1 ELSE 0
                 w == CeWrite(base, ce, s.fields)
             IN  IF s.outcome /= "return"
                 THEN Result(s.writes, s.outcome, s.built, FALSE)
                 ELSE IF d.outcome /= "return"
                 THEN Result(s.writes \o d.writes, d.outcome, s.built + nd, FALSE)
                 ELSE Result(s.writes \o d.writes \o w.writes, w.outcome,
                             s.built + nd, FALSE)
        ELSE LET w == CeWrite(base, ce, <<>>)
             IN  Result(w.writes, w.outcome, 0, FALSE)

\* logw with the Fields of the list constructed before the gate is consulted
logwScanFirst(base, lvl, msg, kv) ==
    IF lvl < DPanicLevel /\ ~CoreEnabled(base.core, lvl)
    THEN Result(<<>>, "return", Scan(base, kv, ScanInit).built, TRUE)
    ELSE logwAdmitted(base, lvl, msg, kv)

logw(base, lvl, msg, kv) ==
    IF lvl < DPanicLevel /\ ~CoreEnabled(base.core, lvl)
    THEN Result(<<>>, "return", 0, TRUE)
    ELSE logwAdmitted(base, lvl, msg, kv)

logf(base, lvl, format, args) ==
    IF lvl < DPanicLevel /\ ~CoreEnabled(base.core, lvl)
    THEN Result(<<>>, "return", 0, TRUE)
    ELSE LET msg == IF Len(args) > 0
                    THEN IF Join(format) = "" THEN fmtSprint(args)
                         ELSE fmtSprintf(format, args)
                    ELSE Join(format)
             ce == ZapCheck(base, lvl, msg)
         IN  IF ce.nil THEN Result(<<>>, "return", 0, FALSE)
             ELSE LET w == CeWrite(base, ce, <<>>)
                  IN  Result(w.writes, w.outcome, 0, FALSE)

-----------------------------------------------------------------------------
(* The Logger type and its constructors.  A store is the heap of Logger    *)
(* objects with the level cells; an operation yields the new store and     *)
(* the *Logger it returns.                                                 *)

Logger(base, level) == [base |-> base, level |-> level]

Store(hp, cs, ret) == [heap |-> hp, cells |-> cs, ret |-> ret]

NewLogger(hp, cs) ==
    LET cell == Len(cs) + 1
    IN  Store(Append(hp, Logger(ZapLogger(IoCore(cell), FALSE, ErrorLevel), cell)),
              Append(cs, InfoLevel), Len(hp) + 1)

NewDevelopmentLogger(hp, cs) ==
    LET cell == Len(cs) + 1
    IN  Store(Append(hp, Logger(ZapLogger(IoCore(cell), TRUE, WarnLevel), cell)),
              Append(cs, DebugLevel), Len(hp) + 1)

\* zap.NewNop() has its own core; the AtomicLevel beside it gates nothing
NewNopLogger(hp, cs) ==
    LET cell == Len(cs) + 1
    IN  Store(Append(hp, Logger(ZapLogger(NopCore, FALSE, FatalLevel + 1), cell)),
              Append(cs, InfoLevel), Len(hp) + 1)

\* l.base = l.base.With(fields...); return l
With(hp, cs, l, fields) ==
    Store([hp EXCEPT ![l].base = ZapWith(@, fields)], cs, l)

\* Named with the level copied into a cell of the new Logger's own
NamedCopiesLevel(hp, cs, l, name) ==
    IF name = "" THEN Store(hp, cs, l)
    ELSE Store(Append(hp, [hp[l] EXCEPT !.base = ZapNamed(@, name),
                                        !.level = Len(cs) + 1]),
               Append(cs, cs[hp[l].level]), Len(hp) + 1)

\* c := *l; c.base = l.base.Named(name); return &c
Named(hp, cs, l, name) ==
    IF name = "" THEN Store(hp, cs, l)
    ELSE Store(Append(hp, [hp[l] EXCEPT !.base = ZapNamed(@, name)]), cs,
               Len(hp) + 1)

\* l.level.Level()
Level(hp, cs, l) == cs[hp[l].level]

\* l.level.SetLevel(level)
SetLevel(hp, cs, l, level) ==
    Store(hp, [cs EXCEPT ![hp[l].level] = level], l)

-----------------------------------------------------------------------------
(* The leveled methods *)

\* the body of Debug/Info/Warn/Error/DPanic/Panic/Fatal:
\*   kv = append(kv, TraceId(ctx)); l.logw(lvl, msg, kv)
\* handed is the list logw receives, lvl the severity it is given
ctxLog(base, lvl, ctx, msg, kv) ==
    LET kv2 == Append(kv, TraceId(ctx))
        r == logw(base, lvl, msg, kv2)
    IN  [res |-> [r EXCEPT !.built = @ + 1], handed |-> kv2, lvl |-> lvl]

\* the body of the *w methods: l.logw(lvl, msg, kv)
wLog(base, lvl, msg, kv) ==
    [res |-> logw(base, lvl, msg, kv), handed |-> kv, lvl |-> lvl]

\* the body of the *f methods: l.logf(lvl, format, args)
fLog(base, lvl, format, args) ==
    [res |-> logf(base, lvl, format, args), handed |-> args, lvl |-> lvl]

\* the record of one leveled call: sev is the severity the method is named
\* after, lvl the one it hands to logw / logf, gate the level of the
\* receiver's cell when the call was made, cfg the receiver's base
LogRecord(l, method, sev, kind, args, r) ==
    [op |-> "log", method |-> method, sev |-> sev, kind |-> kind, recv |-> l,
     args |-> args, gate |-> Level(heap, cells, l), cfg |-> heap[l].base,
     res |-> r.res, handed |-> r.handed, lvl |-> r.lvl]

NoOp == [op |-> "none"]

\* os.Exit ended the process
Exited == last.op = "log" /\ last.res.outcome = "exit"

Emit(rec) ==
    /\ ~Exited
    /\ last' = rec
    /\ UNCHANGED <<heap, cells, input, slot, pc, loc, calls, withs, dial>>

Msg == "msg"

Debug(H, C, KV) ==
    \E l \in H, ctx \in C, kv \in KV :
        Emit(LogRecord(l, "Debug", DebugLevel, "ctx", kv,
                       ctxLog(heap[l].base, DebugLevel, ctx, Msg, kv)))

Info(H, C, KV) ==
    \E l \in H, ctx \in C, kv \in KV :
        Emit(LogRecord(l, "Info", InfoLevel, "ctx", kv,
                       ctxLog(heap[l].base, InfoLevel, ctx, Msg, kv)))

Warn(H, C, KV) ==
    \E l \in H, ctx \in C, kv \in KV :
        Emit(LogRecord(l, "Warn", WarnLevel, "ctx", kv,
                       ctxLog(heap[l].base, WarnLevel, ctx, Msg, kv)))

LoggerError(H, C, KV) ==
    \E l \in H, ctx \in C, kv \in KV :
        Emit(LogRecord(l, "Error", ErrorLevel, "ctx", kv,
                       ctxLog(heap[l].base, ErrorLevel, ctx, Msg, kv)))

DPanic(H, C, KV) ==
    \E l \in H, ctx \in C, kv \in KV :
        Emit(LogRecord(l, "DPanic", DPanicLevel, "ctx", kv,
                       ctxLog(heap[l].base, DPanicLevel, ctx, Msg, kv)))

Panic(H, C, KV) ==
    \E l \in H, ctx \in C, kv \in KV :
        Emit(LogRecord(l, "Panic", PanicLevel, "ctx", kv,
                       ctxLog(heap[l].base, PanicLevel, ctx, Msg, kv)))

Fatal(H, C, KV) ==
    \E l \in H, ctx \in C, kv \in KV :
        Emit(LogRecord(l, "Fatal", FatalLevel, "ctx", kv,
                       ctxLog(heap[l].base, FatalLevel, ctx, Msg, kv)))

Debugw(H, KV) ==
    \E l \in H, kv \in KV :
        Emit(LogRecord(l, "Debugw", DebugLevel, "w", kv,
                       wLog(heap[l].base, DebugLevel, Msg, kv)))

Infow(H, KV) ==
    \E l \in H, kv \in KV :
        Emit(LogRecord(l, "Infow", InfoLevel, "w", kv,
                       wLog(heap[l].base, InfoLevel, Msg, kv)))

Warnw(H, KV) ==
    \E l \in H, kv \in KV :
        Emit(LogRecord(l, "Warnw", WarnLevel, "w", kv,
                       wLog(heap[l].base, WarnLevel, Msg, kv)))

Errorw(H, KV) ==
    \E l \in H, kv \in KV :
        Emit(LogRecord(l, "Errorw", ErrorLevel, "w", kv,
                       wLog(heap[l].base, ErrorLevel, Msg, kv)))

\* DPanicw hands zapcore.InfoLevel to logw
DPanicw(H, KV) ==
    \E l \in H, kv \in KV :
        Emit(LogRecord(l, "DPanicw", DPanicLevel, "w", kv,
                       wLog(heap[l].base, InfoLevel, Msg, kv)))

Panicw(H, KV) ==
    \E l \in H, kv \in KV :
        Emit(LogRecord(l, "Panicw", PanicLevel, "w", kv,
                       wLog(heap[l].base, PanicLevel, Msg, kv)))

Fatalw(H, KV) ==
    \E l \in H, kv \in KV :
        Emit(LogRecord(l, "Fatalw", FatalLevel, "w", kv,
                       wLog(heap[l].base, FatalLevel, Msg, kv)))

Debugf(H, FA) ==
    \E l \in H, fa \in FA :
        Emit(LogRecord(l, "Debugf", DebugLevel, "f", fa,
                       fLog(heap[l].base, DebugLevel, fa.format, fa.args)))

Infof(H, FA) ==
    \E l \in H, fa \in FA :
        Emit(LogRecord(l, "Infof", InfoLevel, "f", fa,
                       fLog(heap[l].base, InfoLevel, fa.format, fa.args)))

Warnf(H, FA) ==
    \E l \in H, fa \in FA :
        Emit(LogRecord(l, "Warnf", WarnLevel, "f", fa,
                       fLog(heap[l].base, WarnLevel, fa.format, fa.args)))

Errorf(H, FA) ==
    \E l \in H, fa \in FA :
        Emit(LogRecord(l, "Errorf", ErrorLevel, "f", fa,
                       fLog(heap[l].base, ErrorLevel, fa.format, fa.args)))

DPanicf(H, FA) ==
    \E l \in H, fa \in FA :
        Emit(LogRecord(l, "DPanicf", DPanicLevel, "f", fa,
                       fLog(heap[l].base, DPanicLevel, fa.format, fa.args)))

Panicf(H, FA) ==
    \E l \in H, fa \in FA :
        Emit(LogRecord(l, "Panicf", PanicLevel, "f", fa,
                       fLog(heap[l].base, PanicLevel, fa.format, fa.args)))

Fatalf(H, FA) ==
    \E l \in H, fa \in FA :
        Emit(LogRecord(l, "Fatalf", FatalLevel, "f", fa,
                       fLog(heap[l].base, FatalLevel, fa.format, fa.args)))

-----------------------------------------------------------------------------
(* Inputs *)

\* the elements an argument list is made of: a string key, a key that is
\* not a string, a context without and with a trace, a constructed Field
Elems == {StrV("k"), IntV(42), CtxV(""), CtxV("t1"), Count(1)}

ArgLists(n) == UNION {[1..k -> Elems] : k \in 0..n}

Ctxs == {CtxV(""), CtxV("t1")}

FmtArgs ==
    [format : {<<>>, <<"m">>, <<"%s">>},
     args : {<<>>, <<StrV("a")>>, <<StrV("a"), StrV("b")>>}]

NoInput == [kind |-> "none"]

\* the Fields With is called with
F1 == Method("GET")
F2 == Topic("orders")
WithArgs == {<<>>, <<F1>>, <<F2>>}

Names == {"", "a"}

Handles == 1..Len(heap)

-----------------------------------------------------------------------------------------------------------------------------------------------------
(* Spec: a program that constructs a root logger of some configuration,    *)
(* derives loggers from it with Named and With, and turns the level dial.  *)
(* The leveled methods assign neither heap nor cells; what a call through  *)
(* a logger of the tree does is logw / logf applied to the state.          *)

Root(cfg) ==
    CASE cfg = "production" -> NewLogger(<<>>, <<>>)
      [] cfg = "development" -> NewDevelopmentLogger(<<>>, <<>>)
      [] cfg = "nop" -> NewNopLogger(<<>>, <<>>)

Configs == {"production", "development", "nop"}

Init ==
    /\ \E cfg \in Configs : heap = Root(cfg).heap /\ cells = Root(cfg).cells
    /\ last = NoOp
    /\ input = NoInput
    /\ slot = 0
    /\ pc = [p \in Procs |-> "idle"]
    /\ loc = [p \in Procs |-> 0]
    /\ calls = [p \in Procs |-> 0]
    /\ withs = 0
    /\ dial = <<>>

Apply(st, rec) ==
    /\ heap' = st.heap
    /\ cells' = st.cells
    /\ last' = rec
    /\ UNCHANGED <<input, slot, pc, loc, calls>>

CallWith ==
    \E l \in Handles, fields \in WithArgs :
        /\ withs < MaxWith
        /\ withs' = withs + 1
        /\ LET st == With(heap, cells, l, fields)
           IN  /\ Len(st.heap) <= MaxLoggers
               /\ Apply(st, [op |-> "With", recv |-> l, fields |-> fields,
                             ret |-> st.ret])
        /\ UNCHANGED dial

CallNamed ==
    \E l \in Handles, name \in Names :
        /\ LET st == Named(heap, cells, l, name)
           IN  /\ Len(st.heap) <= MaxLoggers
               /\ Apply(st, [op |-> "Named", recv |-> l, name |-> name,
                             ret |-> st.ret])
        /\ UNCHANGED <<withs, dial>>

CallSetLevel ==
    \E l \in Handles, level \in Levels :
        /\ Apply(SetLevel(heap, cells, l, level),
                 [op |-> "SetLevel", recv |-> l, level |-> level])
        /\ dial' = <<level>>
        /\ UNCHANGED withs

CallLevel ==
    \E l \in Handles :
        /\ Apply(Store(heap, cells, l),
                 [op |-> "Level", recv |-> l, ret |-> Level(heap, cells, l)])
        /\ UNCHANGED <<withs, dial>>

\* l.base.Sync(): whether the sink fails is the environment's choice
CallSync ==
    \E l \in Handles, failed \in BOOLEAN :
        /\ failed => heap[l].base.core.kind = "io"
        /\ Apply(Store(heap, cells, l),
                 [op |-> "Sync", recv |-> l, failed |-> failed])
        /\ UNCHANGED <<withs, dial>>

Next ==
    \/ CallWith
    \/ CallNamed
    \/ CallSetLevel
    \/ CallLevel
    \/ CallSync

Spec == Init /\ [][Next]_vars

-----
(* SpecNorm: one leveled call on a root logger of any configuration at any *)
(* level, with the argument list drawn from the bounded lists.             *)

InitNorm ==
    /\ \E cfg \in Configs, level \in Levels :
          LET r == Root(cfg)
              st == SetLevel(r.heap, r.cells, r.ret, level)
          IN  heap = st.heap /\ cells = st.cells /\ dial = <<level>>
    /\ input \in [kind : {"kv"}, kv : ArgLists(MaxLen), ctx : Ctxs]
                 \cup [kind : {"f"}, fa : FmtArgs]
    /\ last = NoOp
    /\ slot = 0
    /\ pc = [p \in Procs |-> "idle"]
    /\ loc = [p \in Procs |-> 0]
    /\ calls = [p \in Procs |-> 0]
    /\ withs = 0

\* the drawn call is made once
NormH == IF last.op = "none" THEN {1} ELSE {}
NormC == IF input.kind = "kv" THEN {input.ctx} ELSE {}
NormKV == IF input.kind = "kv" THEN {input.kv} ELSE {}
NormFA == IF input.kind = "f" THEN {input.fa} ELSE {}

NextNorm ==
    \/ Debug(NormH, NormC, NormKV)
    \/ Info(NormH, NormC, NormKV)
    \/ Warn(NormH, NormC, NormKV)
    \/ LoggerError(NormH, NormC, NormKV)
    \/ DPanic(NormH, NormC, NormKV)
    \/ Panic(NormH, NormC, NormKV)
    \/ Fatal(NormH, NormC, NormKV)
    \/ Debugw(NormH, NormKV)
    \/ Infow(NormH, NormKV)
    \/ Warnw(NormH, NormKV)
    \/ Errorw(NormH, NormKV)
    \/ DPanicw(NormH, NormKV)
    \/ Panicw(NormH, NormKV)
    \/ Fatalw(NormH, NormKV)
    \/ Debugf(NormH, NormFA)
    \/ Infof(NormH, NormFA)
    \/ Warnf(NormH, NormFA)
    \/ Errorf(NormH, NormFA)
    \/ DPanicf(NormH, NormFA)
    \/ Panicf(NormH, NormFA)
    \/ Fatalf(NormH, NormFA)

SpecNorm == InitNorm /\ [][NextNorm]_vars

-----------------------------------------------------------------------------
(* SpecL: goroutines calling L(), the accessor of the default logger.      *)
(* The atomic load and the atomic store are separate steps; NewLogger      *)
(* first allocates the Logger with its level and then assigns its base.    *)

\* the base of a Logger that NewLogger has allocated and not yet filled in
NilBase == [nil |-> TRUE]

\* L() without the nil test: every call constructs and publishes
NeedsInitAlways(l) == TRUE

\* if l == nil
NeedsInit(l) == l = 0

\* logger := &Logger{level: zap.NewAtomicLevelAt(zapcore.InfoLevel)}
AllocLogger(hp, cs) ==
    Store(Append(hp, Logger(NilBase, Len(cs) + 1)), Append(cs, InfoLevel),
          Len(hp) + 1)

\* logger.base = zap.New(...)
BuildLogger(hp, l) ==
    [hp EXCEPT ![l].base = ZapLogger(IoCore(hp[l].level), FALSE, ErrorLevel)]

\* what atomic.StorePointer(&defaultLogger, unsafe.Pointer(l)) leaves in the slot
StorePointer(old, l) == l

\* without the development build tag the slot starts empty; with it init()
\* has stored a development logger before main runs
InitL ==
    /\ \/ /\ heap = <<>> /\ cells = <<>> /\ slot = 0
       \/ /\ heap = NewDevelopmentLogger(<<>>, <<>>).heap
          /\ cells = NewDevelopmentLogger(<<>>, <<>>).cells
          /\ slot = StorePointer(0, NewDevelopmentLogger(<<>>, <<>>).ret)
    /\ last = NoOp
    /\ input = NoInput
    /\ pc = [p \in Procs |-> "idle"]
    /\ loc = [p \in Procs |-> 0]
    /\ calls = [p \in Procs |-> 0]
    /\ withs = 0
    /\ dial = <<>>

\* l := (*Logger)(atomic.LoadPointer(&defaultLogger)); if l == nil ...
L_Load(p) ==
    /\ pc[p] = "idle"
    /\ calls[p] < MaxCalls
    /\ calls' = [calls EXCEPT ![p] = @ + 1]
    /\ loc' = [loc EXCEPT ![p] = slot]
    /\ pc' = [pc EXCEPT ![p] = IF NeedsInit(slot) THEN "alloc" ELSE "ret"]
    /\ UNCHANGED <<heap, cells, last, input, slot, withs, dial>>

L_Alloc(p) ==
    /\ pc[p] = "alloc"
    /\ LET st == AllocLogger(heap, cells)
       IN  /\ heap' = st.heap
           /\ cells' = st.cells
           /\ loc' = [loc EXCEPT ![p] = st.ret]
    /\ pc' = [pc EXCEPT ![p] = "build"]
    /\ UNCHANGED <<last, input, slot, calls, withs, dial>>

L_Build(p) ==
    /\ pc[p] = "build"
    /\ heap' = BuildLogger(heap, loc[p])
    /\ pc' = [pc EXCEPT ![p] = "store"]
    /\ UNCHANGED <<cells, last, input, slot, loc, calls, withs, dial>>

L_Store(p) ==
    /\ pc[p] = "store"
    /\ slot' = StorePointer(slot, loc[p])
    /\ pc' = [pc EXCEPT ![p] = "ret"]
    /\ UNCHANGED <<heap, cells, last, input, loc, calls, withs, dial>>

\* return l
L_Return(p) ==
    /\ pc[p] = "ret"
    /\ last' = [op |-> "L", proc |-> p, ret |-> loc[p]]
    /\ pc' = [pc EXCEPT ![p] = "idle"]
    /\ UNCHANGED <<heap, cells, input, slot, loc, calls, withs, dial>>

NextL ==
    \/ \E p \in Procs : L_Load(p)
    \/ \E p \in Procs : L_Alloc(p)
    \/ \E p \in Procs : L_Build(p)
    \/ \E p \in Procs : L_Store(p)
    \/ \E p \in Procs : L_Return(p)

SpecL == InitL /\ [][NextL]_vars

-----------------------------------------------------------------------------
(* SpecFields: one call of a Field constructor on drawn arguments          *)

CtorInputs ==
    [kind : {"ctor"}, key : {"k", ""}, s : {"GET", ""}, n : {-1, 0, 7},
     b : BOOLEAN, err : {NilV, ErrV("boom")}, ctx : Ctxs,
     value : {StrV("v"), IntV(1), NilV}]

InitFields ==
    /\ heap = <<>>
    /\ cells = <<>>
    /\ last = NoOp
    /\ input \in CtorInputs
    /\ slot = 0
    /\ pc = [p \in Procs |-> "idle"]
    /\ loc = [p \in Procs |-> 0]
    /\ calls = [p \in Procs |-> 0]
    /\ withs = 0
    /\ dial = <<>>

\* the drawn call is made once; ret is the Field, or Fault
Construct(name, ret) ==
    /\ last.op = "none"
    /\ last' = [op |-> "ctor", name |-> name, ret |-> ret]
    /\ UNCHANGED <<heap, cells, input, slot, pc, loc, calls, withs, dial>>

CallAny == Construct("Any", Any(input.key, input.value))
CallObject == Construct("Object", Object(input.key, ObjV(input.s)))
CallBinary == Construct("Binary", Binary(input.key, BytesV(input.s)))
CallBool == Construct("Bool", Bool(input.key, input.b))
CallByteString == Construct("ByteString", ByteString(input.key, BytesV(input.s)))
CallNamespace == Construct("Namespace", Namespace(input.key))
CallMethod == Construct("Method", Method(input.s))
CallAction == Construct("Action", Action(input.s))
CallTopic == Construct("Topic", Topic(input.s))
CallPartition == Construct("Partition", Partition(input.n))
CallOffset == Construct("Offset", Offset(input.n))
CallProductID == Construct("ProductID", ProductID(input.n))
CallError == Construct("Error", Error(input.err))
CallCount == Construct("Count", Count(input.n))
CallQuery == Construct("Query", Query(input.s))
CallFile == Construct("File", File(input.s))
CallTraceId == Construct("TraceId", TraceId(input.ctx))

NextFields ==
    \/ CallAny \/ CallObject \/ CallBinary \/ CallBool \/ CallByteString
    \/ CallNamespace \/ CallMethod \/ CallAction \/ CallTopic
    \/ CallPartition \/ CallOffset \/ CallProductID \/ CallError
    \/ CallCount \/ CallQuery \/ CallFile \/ CallTraceId

SpecFields == InitFields /\ [][NextFields]_vars

-----------------------------------------------------------------------------
(* SpecScan: one call of logw on a root logger of any configuration, with  *)
(* the loop over the argument list taken one iteration at a time.  While   *)
(* the loop runs, last holds its variables: s (i, fields, invalids), the   *)
(* number of iterations made, and the indices of kv read so far, in order. *)

\* the indices of kv one iteration reads: kv[i] in the type switches and in
\* the dangling-key branch, kv[i] and kv[i+1] in k, v := kv[i], kv[i+1]
ScanReads(kv, s) ==
    LET m == Len(kv) - 1
        e == kv[s.i + 1]
    IN  IF IsField(e) THEN <<s.i>>
        ELSE IF IsCtx(e) THEN <<s.i>>
        ELSE IF s.i = m THEN <<s.i>>
        ELSE <<s.i, s.i + 1>>

InitScan ==
    /\ \E cfg \in Configs : heap = Root(cfg).heap /\ cells = Root(cfg).cells
    /\ input \in [kind : {"scan"}, lvl : Levels, kv : ArgLists(MaxLen)]
    /\ last = NoOp
    /\ slot = 0
    /\ pc = [p \in Procs |-> "idle"]
    /\ loc = [p \in Procs |-> 0]
    /\ calls = [p \in Procs |-> 0]
    /\ withs = 0
    /\ dial = <<>>

\* the gate admits the call, Check returns an entry and the list is not
\* empty: the loop is entered with i = 0
ReachesLoop ==
    /\ ~(input.lvl < DPanicLevel /\ ~CoreEnabled(heap[1].base.core, input.lvl))
    /\ ~ZapCheck(heap[1].base, input.lvl, Msg).nil
    /\ Len(input.kv) > 0

\* the loop condition i < n, and no break taken
LoopRuns == ~last.s.done /\ last.s.i < Len(input.kv)

ScanEnter ==
    /\ last.op = "none"
    /\ ReachesLoop
    /\ last' = [op |-> "scan", s |-> ScanInit, iters |-> 0, reads |-> <<>>]
    /\ UNCHANGED <<heap, cells, input, slot, pc, loc, calls, withs, dial>>

\* the call returns without entering the loop
ScanSkip ==
    /\ last.op = "none"
    /\ ~ReachesLoop
    /\ last' = [op |-> "skipped",
                res |-> logw(heap[1].base, input.lvl, Msg, input.kv)]
    /\ UNCHANGED <<heap, cells, input, slot, pc, loc, calls, withs, dial>>

ScanIter ==
    /\ last.op = "scan"
    /\ LoopRuns
    /\ last' = [last EXCEPT !.s = ScanStep(heap[1].base, input.kv, last.s),
                            !.iters = @ + 1,
                            !.reads = @ \o ScanReads(input.kv, last.s)]
    /\ UNCHANGED <<heap, cells, input, slot, pc, loc, calls, withs, dial>>

\* the loop is left; the diagnostic for the invalid pairs and the record
\* are written
ScanLeave ==
    /\ last.op = "scan"
    /\ ~LoopRuns
    /\ last' = [op |-> "scanned", s |-> last.s, iters |-> last.iters,
                reads |-> last.reads,
                res |-> logw(heap[1].base, input.lvl, Msg, input.kv)]
    /\ UNCHANGED <<heap, cells, input, slot, pc, loc, calls, withs, dial>>

NextScan ==
    \/ ScanEnter
    \/ ScanSkip
    \/ ScanIter
    \/ ScanLeave

\* logw is straight-line code run by one goroutine: a call that has started
\* keeps taking steps
SpecScan == InitScan /\ [][NextScan]_vars /\ WF_vars(NextScan)

-----------------------------------------------------------------------------
(* What the specification expects of an argument list (spec 4.3): the      *)
(* fields of the record, the invalid pairs with their positions, and the   *)
(* dangling key, read off the list independently of ScanStep.              *)

RECURSIVE Expect(_, _, _)
Expect(kv, j, acc) ==
    IF j > Len(kv) THEN acc
    ELSE IF kv[j].t = "Field"
    THEN Expect(kv, j + 1, [acc EXCEPT !.fields = Append(@, kv[j])])
    ELSE IF kv[j].t = "ctx"
    THEN Expect(kv, j + 1,
                IF kv[j].trace = "" THEN acc
                ELSE [acc EXCEPT !.fields =
                        Append(@, MkField("traceId", "String", StrV(kv[j].trace)))])
    ELSE IF j = Len(kv) THEN [acc EXCEPT !.dangling = <<kv[j]>>]
    ELSE IF kv[j].t /= "string"
    THEN Expect(kv, j + 2,
                [acc EXCEPT !.invalid =
                   Append(@, [position |-> j - 1, key |-> kv[j], value |-> kv[j + 1]])])
    ELSE Expect(kv, j + 2,
                [acc EXCEPT !.fields = Append(@, Any(kv[j].s, kv[j + 1]))])

Expected(kv) ==
    Expect(kv, 1, [fields |-> <<>>, invalid |-> <<>>, dangling |-> <<>>])

Range(f) == {f[x] : x \in DOMAIN f}

IsLog == last.op = "log"
Keyed == IsLog /\ last.kind \in {"ctx", "w"}

\* the core of the receiver admits the severity handed to logw / logf
Admitted == IsLog /\ last.cfg.core.kind = "io" /\ last.lvl >= last.gate

\* the records of the call itself and of the two diagnostics
OriginalWrites ==
    SelectSeq(last.res.writes,
              LAMBDA w : w.msg \notin {danglingKeyErrMsg, nonStringKeyErrMsg})
DanglingDiags == SelectSeq(last.res.writes, LAMBDA w : w.msg = danglingKeyErrMsg)
InvalidDiags == SelectSeq(last.res.writes, LAMBDA w : w.msg = nonStringKeyErrMsg)

Malformed(kv) == Expected(kv).dangling /= <<>> \/ Expected(kv).invalid /= <<>>

-----------------------------------------------------------------------------
(* C1 *)

\* C1 (as claimed): With(fields...) with at least one Field returns a Logger
\* that is not the receiver, leaves every existing Logger as it was, and the
\* record a later call through the receiver writes carries none of the
\* fields that were passed.
C1_WithLeavesReceiver ==
    [][(last'.op = "With" /\ last'.fields /= <<>>) =>
         /\ last'.ret /= last'.recv
         /\ \A l \in Handles : heap'[l] = heap[l]
         /\ \A w \in Range(logw(heap'[last'.recv].base, FatalLevel, Msg, <<>>).writes) :
               \A f \in Range(last'.fields) :
                  f \in Range(w.fields) => f \in Range(heap[last'.recv].base.fields)
      ]_vars

-----------------------------------------------------------------------------
(* C2 *)

\* C2 (as claimed): a keyed call below Panic that the gate admits and whose
\* argument list has a dangling key or a non-string key returns normally,
\* and its own record is written with the fields of the well-formed part.
C2_MalformedNeverAborts ==
    (Keyed /\ Admitted /\ last.lvl < PanicLevel /\ Malformed(last.handed)) =>
        /\ last.res.outcome = "return"
        /\ Len(OriginalWrites) = 1
        /\ OriginalWrites[1].fields =
              last.cfg.fields \o Expected(last.handed).fields

-----------------------------------------------------------------------------
(* C3 *)

\* C3 (as claimed): a context-taking call that the gate admits, with no
\* trace in ctx and a caller's list ending in a lone key, writes a record
\* that has the traceId field "unknown" and no field made from the lone
\* key, and exactly one dangling-key diagnostic that carries that key.
C3_DanglingWithContext ==
    (IsLog /\ last.kind = "ctx" /\ Admitted /\ input.ctx.trace = ""
       /\ Expected(last.args).dangling /= <<>>) =>
        LET key == Expected(last.args).dangling[1]
        IN  /\ Len(OriginalWrites) = 1
            /\ TraceId(input.ctx) \in Range(OriginalWrites[1].fields)
            /\ OriginalWrites[1].fields =
                  last.cfg.fields
                  \o Append(Expected(last.args).fields, TraceId(input.ctx))
            /\ Len(DanglingDiags) = 1
            /\ Any("ignored", key) \in Range(DanglingDiags[1].fields)

-----------------------------------------------------------------------------
(* C4 *)

\* C4 (as claimed): with the gate at level X on a logger with a core, a call
\* of a leveled method (context, w or f variant) with a well-formed argument
\* list writes nothing when the method's named severity is below X, and
\* writes exactly one record, at the named severity, when it is at or above.
C4_GatingMonotonic ==
    (IsLog /\ last.cfg.core.kind = "io"
       /\ (last.kind /= "f" => ~Malformed(last.handed))) =>
        IF last.sev < last.gate
        THEN last.res.writes = <<>>
        ELSE /\ Len(last.res.writes) = 1
             /\ last.res.writes[1].level = last.sev

-----------------------------------------------------------------------------
(* C5 *)

FullyConstructed(l) == l /= 0 /\ l \in DOMAIN heap /\ heap[l].base /= NilBase

\* no call that saw the slot empty is still in flight
Settled ==
    /\ slot /= 0
    /\ \A p \in Procs : pc[p] = "idle" \/ (pc[p] = "ret" /\ loc[p] = slot)

\* C5: every L() call returns a non-nil, fully constructed Logger; the slot
\* only ever holds a fully constructed Logger and, once filled, is never
\* empty again; once every call that raced on the empty slot has completed,
\* the slot keeps its value and every later call returns that value.
C5_Singleton ==
    /\ [](/\ (last.op = "L" => FullyConstructed(last.ret))
          /\ (slot /= 0 => FullyConstructed(slot)))
    /\ [][/\ (slot /= 0 => slot' /= 0)
          /\ (Settled => Settled' /\ slot' = slot)
          /\ \A p \in Procs :
               (Settled /\ pc[p] = "ret" /\ pc'[p] = "idle") =>
                   (last'.op = "L" /\ last'.ret = slot)
       ]_vars

\* two goroutines raced on the empty slot and each constructed an instance;
\* all calls, the later ones included, have completed
C5_Witness ==
    /\ Len(heap) >= 2
    /\ \A p \in Procs : pc[p] = "idle" /\ calls[p] = MaxCalls
    /\ last.op = "L"
    /\ last.ret = slot

-----------------------------------------------------------------------------
(* C6 *)

\* a call through l at severity lvl reaches the core
WritesW(l, lvl) == logw(heap[l].base, lvl, Msg, <<>>).writes /= <<>>
WritesF(l, lvl) == logf(heap[l].base, lvl, <<"m">>, <<>>).writes /= <<>>

\* C6 (as claimed): once SetLevel has been called on a logger of the tree,
\* Level() on every logger of the tree returns the level last passed, and
\* every logger writes exactly the severities at or above it.
C6_SharedGate ==
    dial /= <<>> =>
        \A l \in Handles :
            /\ Level(heap, cells, l) = dial[1]
            /\ \A lvl \in Levels :
                  /\ WritesW(l, lvl) <=> lvl >= dial[1]
                  /\ WritesF(l, lvl) <=> lvl >= dial[1]

\* C6 (amended): Level() on every logger of the tree returns the level last
\* passed to SetLevel; in a tree rooted at NewLogger or NewDevelopmentLogger
\* every logger writes exactly the severities at or above it; in a tree
\* rooted at NewNopLogger no logger writes anything, whatever the level.
C6_SharedGateOfCore ==
    dial /= <<>> =>
        \A l \in Handles :
            /\ Level(heap, cells, l) = dial[1]
            /\ \A lvl \in Levels :
                  IF heap[l].base.core.kind = "io"
                  THEN /\ WritesW(l, lvl) <=> lvl >= dial[1]
                       /\ WritesF(l, lvl) <=> lvl >= dial[1]
                  ELSE ~WritesW(l, lvl) /\ ~WritesF(l, lvl)

\* a logger derived by Named from a root with a core, Fields bound with
\* With, and the dial turned to Error through the derived logger
C6_Witness ==
    /\ Len(heap) >= 2
    /\ heap[1].base.core.kind = "io"
    /\ heap[2].base.name = "a"
    /\ withs >= 1
    /\ last.op = "SetLevel"
    /\ last.recv = 2
    /\ dial = <<ErrorLevel>>
    /\ Level(heap, cells, 1) = ErrorLevel

-----------------------------------------------------------------------------
(* C7 *)

\* C7 (as claimed): a keyed call that the gate admits and whose list has
\* N >= 1 pairs with a non-string key writes exactly one non-string-key
\* diagnostic, whose payload holds the N invalid pairs in scan order, each
\* with the index of its key, the key and the value; its own record is
\* written with the fields of the rest of the list and none of those pairs.
C7_NonStringKeys ==
    (Keyed /\ Admitted /\ Expected(last.handed).invalid /= <<>>) =>
        LET inv == Expected(last.handed).invalid
        IN  /\ Len(InvalidDiags) = 1
            /\ \E f \in Range(InvalidDiags[1].fields) :
                  /\ f.key = "invalid"
                  /\ Len(f.val.arr) = Len(inv)
                  /\ \A j \in DOMAIN inv :
                        f.val.arr[j] =
                            << MkField("position", "Int64", IntV(inv[j].position)),
                               Any("key", inv[j].key),
                               Any("value", inv[j].value) >>
            /\ Len(OriginalWrites) = 1
            /\ OriginalWrites[1].fields =
                  last.cfg.fields \o Expected(last.handed).fields

-----------------------------------------------------------------------------
(* C8 *)

\* C8 (as claimed): a w-method call that the gate admits and whose list ends
\* in a lone key writes exactly one dangling-key diagnostic carrying that
\* key, and its own record with every field of the earlier elements, in
\* order, and no field for the key.
C8_DanglingKey ==
    (IsLog /\ last.kind = "w" /\ Admitted
       /\ Expected(last.handed).dangling /= <<>>) =>
        /\ Len(DanglingDiags) = 1
        /\ Any("ignored", Expected(last.handed).dangling[1])
              \in Range(DanglingDiags[1].fields)
        /\ Len(OriginalWrites) = 1
        /\ OriginalWrites[1].fields =
              last.cfg.fields \o Expected(last.handed).fields

-----------------------------------------------------------------------------
(* C9 *)

\* C9 (as claimed): every constructor returns a Field for every input; in
\* particular Error(nil) returns a string Field with key "error".
C9_ConstructorsTotal ==
    last.op = "ctor" =>
        /\ last.ret /= Fault
        /\ last.ret.t = "Field"
        /\ (last.name = "Error" => last.ret.key = "error" /\ last.ret.type = "String")

-----------------------------------------------------------------------------
(* C10 *)

\* the list the caller passed
CallerList == IF last.kind = "f" THEN last.args.args ELSE last.args

\* the gate rejects the severity the method is named after
GateRejects ==
    IsLog /\ ~(last.cfg.core.kind = "io" /\ last.sev >= last.gate)

-----------------------------------------------------------------------------
(* C11 *)

Scanning == last.op \in {"scan", "scanned"}

NoDuplicates(q) == \A a, b \in DOMAIN q : a /= b => q[a] /= q[b]

\* C11: during the scan of a list of length n the index i stays within
\* 0..n, at most n iterations are made and at most n fields collected, and
\* no element is read twice; each iteration either stops the scan or
\* advances i by 1 (a Field or a context at i) or by 2 (a pair), and reads
\* element i+1 only when i < n-1; a scan that has started ends.
C11_ScanTerminates ==
    /\ [](Scanning =>
            LET n == Len(input.kv)
            IN  /\ 0 <= last.s.i /\ last.s.i <= n
                /\ last.iters <= n
                /\ Len(last.s.fields) <= n
                /\ \A j \in DOMAIN last.reads :
                      0 <= last.reads[j] /\ last.reads[j] < n
                /\ NoDuplicates(last.reads))
    /\ [][(last.op = "scan" /\ last'.op = "scan") =>
            LET n == Len(input.kv)
                i == last.s.i
                e == input.kv[i + 1]
                new == SubSeq(last'.reads, Len(last.reads) + 1, Len(last'.reads))
            IN  /\ last'.iters = last.iters + 1
                /\ \/ last'.s.done /\ last'.s.i = i
                   \/ /\ ~last'.s.done
                      /\ IF IsField(e) \/ IsCtx(e)
                         THEN last'.s.i = i + 1
                         ELSE last'.s.i = i + 2
                /\ new \in {<<i>>, <<i, i + 1>>}
                /\ (new = <<i, i + 1>> => i < n - 1)
       ]_vars
    /\ ((last.op = "scan") ~> (last.op = "scanned"))

\* a list of a Field followed by a pair has been scanned in two iterations,
\* the first advancing i by 1 and the second by 2
C11_Witness ==
    /\ last.op = "scanned"
    /\ input.kv = <<Count(1), StrV("k"), IntV(42)>>
    /\ last.iters = 2
    /\ last.s.i = 3
    /\ last.reads = <<0, 1, 2>>
    /\ Len(last.s.fields) = 2

====
